---- MODULE Spec2Model ----
(***************************************************************************)
(* Crossword CSP solver (generate.py, class CrosswordCreator):             *)
(* node consistency, AC-3 and heuristic backtracking search.               *)
(*                                                                         *)
(* Words are tuples of letters; Python's 0-based word[a] is w[a + 1].      *)
(* Python sets are iterated and popped in an arbitrary order: every place  *)
(* where the code iterates a set or pops from one is a nondeterministic    *)
(* choice over all orders.                                                 *)
(***************************************************************************)
EXTENDS Integers, Sequences, FiniteSets, TLC

VARIABLES
    crossword,    \* self.crossword: [variables, words], read only
    domains,      \* self.domains: slot -> set of words
    pc,           \* position of the caller inside solve() / the driver
    queue,        \* ac3's local work queue (set of arcs <<x, y>>)
    ac3Ret,       \* value returned by the last ac3() call
    arcsArg,      \* the arcs argument of the running ac3() call
    lastArc,      \* history: the arc the last ac3() call popped
    revised,      \* history: value revise() returned for that arc
    domBefore,    \* history: self.domains when the last ac3() call was entered
    domPrev,      \* history: self.domains when the previous ac3() call returned
    retPrev,      \* history: value returned by the previous ac3() call
    ac3Calls,     \* history: number of ac3() calls made on this creator
    assignment,   \* the dict shared by all backtrack() frames
    stack,        \* active backtrack() calls, innermost last
    btCalls,      \* history: number of backtrack() invocations in this run
    result,       \* value returned by solve()
    run,          \* which run of solve() on this puzzle (1 or 2)
    prev,         \* history: value returned by the first run
    ordered       \* a direct call of order_domain_values: arguments and list

vars == <<crossword, domains, pc, queue, ac3Ret, arcsArg, lastArc, revised,
          domBefore, domPrev, retPrev, ac3Calls, assignment, stack, btCalls,
          result, run, prev, ordered>>

----------------------------------------------------------------------------
(* Bounds of the model *)

\* the word list is any subset of the first MaxWords words of AllWords
MaxWords == 5
\* the driver of SpecAC3 calls ac3() at most MaxAc3Calls times
MaxAc3Calls == 2
\* a list of arcs passed to ac3 holds at most MaxArcs arcs
MaxArcs == 1

----------------------------------------------------------------------------
(* The slot model: Variable and Crossword of crossword.py *)

cat == <<"c", "a", "t">>
tag == <<"t", "a", "g">>
go  == <<"g", "o">>
ace == <<"a", "c", "e">>
at  == <<"a", "t">>
dog == <<"d", "o", "g">>
toe == <<"t", "o", "e">>

AllWords == <<cat, tag, go, ace, at, dog, toe>>

Min(a, b) == IF a < b THEN a ELSE b

WordUniverse == {AllWords[k] : k \in 1..Min(MaxWords, Len(AllWords))}

Variable(i, j, direction, length) ==
    [i |-> i, j |-> j, direction |-> direction, length |-> length]

\* the cells a slot covers, in word order
cells(v) ==
    [k \in 1..v.length |->
        <<v.i + (IF v.direction = "down" THEN k - 1 ELSE 0),
          v.j + (IF v.direction = "across" THEN k - 1 ELSE 0)>>]

Range(f) == {f[k] : k \in DOMAIN f}

\* 1-based position of element e in sequence s
IndexOf(s, e) == CHOOSE k \in DOMAIN s : s[k] = e

HasOverlap(x, y) == x # y /\ Range(cells(x)) \cap Range(cells(y)) # {}

\* self.crossword.overlaps[x, y] for neighbours x, y: 0-based (a, b)
overlaps(x, y) ==
    LET c == CHOOSE c \in Range(cells(x)) \cap Range(cells(y)) : TRUE
    IN  <<IndexOf(cells(x), c) - 1, IndexOf(cells(y), c) - 1>>

\* self.crossword.neighbors(x)
neighbors(x) == {v \in crossword.variables : HasOverlap(v, x)}

\* grids: one slot; two crossing slots; two disjoint slots; a chain of
\* three slots; a chain of four slots
Structures ==
    << {Variable(0, 0, "across", 3)},
       {Variable(0, 0, "across", 3), Variable(0, 1, "down", 3)},
       {Variable(0, 0, "across", 3), Variable(2, 0, "across", 3)},
       {Variable(0, 0, "across", 3), Variable(0, 2, "down", 3),
        Variable(2, 2, "across", 2)},
       {Variable(0, 1, "down", 2), Variable(0, 0, "across", 3),
        Variable(0, 2, "down", 3), Variable(2, 2, "across", 2)} >>

Crosswords ==
    {[variables |-> Structures[g], words |-> W] :
        g \in DOMAIN Structures,
        W \in SUBSET WordUniverse}

----------------------------------------------------------------------------
(* Values *)

Empty == [v \in {} |-> <<>>]

NoVar == Variable(-1, -1, "none", 0)

\* no arc popped yet
NoArc == <<NoVar, NoVar>>

\* the arcs argument: None (the default) or a list of arcs
NoArcs == [given |-> FALSE, arcs |-> {}]
Arcs(list) == [given |-> TRUE, arcs |-> list]

None == [kind |-> "None", value |-> Empty]
Pending == [kind |-> "Pending", value |-> Empty]
Assigned(a) == [kind |-> "Assignment", value |-> a]

\* faulty variant: the value is never stored in the assignment
PutNothing(a, var, value) == a

\* assignment[var] = value
Put(a, var, value) ==
    [v \in (DOMAIN a) \cup {var} |-> IF v = var THEN value ELSE a[v]]

\* faulty variant: the tentative value is left in the assignment
DelNothing(a, var) == a

\* del assignment[var]
Del(a, var) == [v \in (DOMAIN a) \ {var} |-> a[v]]

\* no direct call of order_domain_values yet
NotOrdered == [var |-> NoVar, values |-> <<>>, returning |-> FALSE, entry |-> Empty]

----------------------------------------------------------------------------
(* __init__ *)

InitDomains(cw) == [var \in cw.variables |-> cw.words]

Init ==
    /\ crossword \in Crosswords
    /\ domains = InitDomains(crossword)
    /\ pc = "node"
    /\ queue = {}
    /\ ac3Ret = "NotCalled"
    /\ arcsArg = NoArcs
    /\ lastArc = NoArc
    /\ revised = FALSE
    /\ domBefore = domains
    /\ domPrev = domains
    /\ retPrev = "NotCalled"
    /\ ac3Calls = 0
    /\ assignment = Empty
    /\ stack = <<>>
    /\ btCalls = 0
    /\ result = Pending
    /\ run = 1
    /\ prev = Pending
    /\ ordered = NotOrdered

----------------------------------------------------------------------------
(* enforce_node_consistency *)

\* the words the loop removes from the domain of `variable`
WrongLength(variable) == {word \in crossword.words : variable.length # Len(word)}

\* set.remove raises KeyError when the word is no longer in the domain
NodeKeyError == \E variable \in crossword.variables :
                    ~(WrongLength(variable) \subseteq domains[variable])

\* faulty variant: the domains share one set instead of holding copies, so a word
\* removed for one slot is removed for all
NodeConsistentShared(variable) ==
    domains[variable] \ UNION {WrongLength(v) : v \in crossword.variables}

NodeConsistent(variable) == domains[variable] \ WrongLength(variable)

EnforceNodeConsistency ==
    /\ pc = "node"
    /\ IF NodeKeyError
       THEN /\ pc' = "KeyError"
            /\ UNCHANGED domains
       ELSE /\ domains' = [variable \in crossword.variables |-> NodeConsistent(variable)]
            /\ pc' = "ac3"
    /\ UNCHANGED <<crossword, ordered, queue, ac3Ret, arcsArg, lastArc, revised, domBefore,
                   domPrev, retPrev, ac3Calls, assignment, stack, btCalls, result,
                   run, prev>>

----------------------------------------------------------------------------
(* revise *)

\* faulty variant: a word is kept only if every checkword of Domain[y] matches
SupportedByAll(dom, x, y, word) ==
    LET a == overlaps(x, y)[1]
        b == overlaps(x, y)[2]
    IN  \A checkword \in dom[y] : word[a + 1] = checkword[b + 1]

\* inner loop of revise: some checkword of Domain[y] matches word at the overlap
Supported(dom, x, y, word) ==
    LET a == overlaps(x, y)[1]
        b == overlaps(x, y)[2]
    IN  \E checkword \in dom[y] : word[a + 1] = checkword[b + 1]

\* faulty variant: the new domain is rebuilt from the word list instead of being
\* cut down from the current domain
ReviseRebuild(dom, x, y) ==
    {word \in crossword.words : Len(word) = x.length /\ Supported(dom, x, y, word)}

\* self.domains[x] after revise(x, y)
ReviseDomain(dom, x, y) == {word \in dom[x] : Supported(dom, x, y, word)}

\* faulty variant: the flag is raised for a word that is kept
reviseKept(dom, x, y) == \E word \in dom[x] : Supported(dom, x, y, word)

\* value returned by revise(x, y): True iff some word was removed
revise(dom, x, y) == \E word \in dom[x] : ~Supported(dom, x, y, word)

----------------------------------------------------------------------------
(* ac3 *)

\* every arc of the problem
AllArcs == {arc \in crossword.variables \X crossword.variables :
               arc[2] \in neighbors(arc[1])}

\* arcs added after a revision of x that came from arc (x, y)
Requeue(x, y) == {<<z, x>> : z \in neighbors(x) \ {y}}

\* the queue the while loop starts with: the loops over variables and
\* neighbours fill it, and the arcs argument is never read
InitialQueue(arcs) == AllArcs

\* the call ac3(arcs) up to the while loop
Ac3Call(arcs) ==
    /\ pc = "ac3"
    /\ arcsArg' = arcs
    /\ queue' = InitialQueue(arcs)
    /\ domBefore' = domains
    /\ ac3Calls' = ac3Calls + 1
    /\ ac3Ret' = "Running"
    /\ lastArc' = NoArc
    /\ revised' = FALSE
    /\ pc' = "ac3loop"
    /\ UNCHANGED <<crossword, ordered, domains, domPrev, retPrev, assignment, stack,
                   btCalls, result, run, prev>>

\* solve(): self.ac3()
Ac3Begin == Ac3Call(NoArcs)

\* the lists of arcs a caller passes
SuppliedArcs == {list \in SUBSET AllArcs : Cardinality(list) <= MaxArcs}

\* a driver calls ac3(arcs) with a list of arcs
Ac3Supplied == \E list \in SuppliedArcs : Ac3Call(Arcs(list))

\* one pass of the while loop: pop, revise and the return that ends the pass
Ac3Pop ==
    /\ pc = "ac3loop"
    /\ queue # {}
    /\ \E arc \in queue :
         LET x == arc[1]
             y == arc[2]
             popped == queue \ {arc}
         IN  /\ lastArc' = arc
             /\ revised' = revise(domains, x, y)
             /\ domains' = [domains EXCEPT ![x] = ReviseDomain(domains, x, y)]
             /\ IF revise(domains, x, y)
                THEN IF Cardinality(domains'[x]) = 0
                     THEN /\ ac3Ret' = "False"
                          /\ queue' = popped
                     ELSE /\ ac3Ret' = "True"
                          /\ queue' = popped \cup Requeue(x, y)
                ELSE /\ ac3Ret' = "True"
                     /\ queue' = popped
    /\ arcsArg' = NoArcs
    /\ pc' = "ac3ret"
    /\ UNCHANGED <<crossword, ordered, domBefore, domPrev, retPrev, ac3Calls,
                   assignment, stack, btCalls, result, run, prev>>

\* the while condition fails on an empty queue: the function ends without a
\* return statement and yields None
Ac3Empty ==
    /\ pc = "ac3loop"
    /\ queue = {}
    /\ ac3Ret' = "None"
    /\ arcsArg' = NoArcs
    /\ pc' = "ac3ret"
    /\ UNCHANGED <<crossword, ordered, domains, queue, lastArc, revised, domBefore,
                   domPrev, retPrev, ac3Calls, assignment, stack, btCalls, result,
                   run, prev>>

\* a driver calls ac3() again on the same creator
Ac3Again ==
    /\ pc = "ac3ret"
    /\ ac3Calls < MaxAc3Calls
    /\ domPrev' = domains
    /\ retPrev' = ac3Ret
    /\ pc' = "ac3"
    /\ UNCHANGED <<crossword, ordered, domains, queue, ac3Ret, arcsArg, lastArc, revised,
                   domBefore, ac3Calls, assignment, stack, btCalls, result, run,
                   prev>>

----------------------------------------------------------------------------
(* assignment_complete, consistent *)

\* faulty variant: the loop answers True at the first slot that is assigned
AnyAssigned(a) == \E x \in crossword.variables : x \in DOMAIN a

assignment_complete(a) == \A x \in crossword.variables : x \in DOMAIN a

\* first loop of consistent: two distinct slots hold the same word
SameWordTwice(a) == \E x \in DOMAIN a, y \in DOMAIN a : x # y /\ a[x] = a[y]

\* second loop of consistent: two assigned neighbours disagree on their cell
OverlapConflict(a) ==
    \E x \in DOMAIN a : \E var \in neighbors(x) :
        /\ var \in DOMAIN a
        /\ a[x][overlaps(x, var)[1] + 1] # a[var][overlaps(x, var)[2] + 1]

\* faulty variant: the overlap loop is missing
ConsistentNoOverlap(a) == ~SameWordTwice(a)

\* faulty variant: the distinctness loop is missing
ConsistentNoDistinct(a) == ~OverlapConflict(a)

consistent(a) == ~SameWordTwice(a) /\ ~OverlapConflict(a)

----------------------------------------------------------------------------
(* order_domain_values *)

\* count computed for val: unassigned neighbours whose domain holds val
num_rule_out(var, val, a) ==
    Cardinality({neighbor \in neighbors(var) :
                    neighbor \notin DOMAIN a /\ val \in domains[neighbor]})

\* every order in which the set S can be iterated
Orders(S) ==
    {f \in [1..Cardinality(S) -> S] : \A i, j \in DOMAIN f : i # j => f[i] # f[j]}

\* faulty variant: the list is returned without being sorted
OrderUnsorted(var, a) == Orders(domains[var])

\* a stable sort by count of the words in iteration order: every order of the
\* domain in which the counts never decrease
order_domain_values(var, a) ==
    {f \in Orders(domains[var]) :
        \A i, j \in DOMAIN f :
            i < j => num_rule_out(var, f[i], a) <= num_rule_out(var, f[j], a)}

----------------------------------------------------------------------------
(* select_unassigned_variable *)

\* faulty variant: the domain-size comparison is the wrong way round
compareFlipped(x, y) ==
    IF x[2] # y[2]
    THEN IF x[2] > y[2] THEN -1 ELSE 1
    ELSE IF x[3] > y[3] THEN -1
         ELSE IF x[3] < y[3] THEN 1 ELSE 0

\* faulty variant: the degree tie-break is the wrong way round
compareLowDegree(x, y) ==
    IF x[2] # y[2]
    THEN IF x[2] > y[2] THEN 1 ELSE -1
    ELSE IF x[3] > y[3] THEN 1
         ELSE IF x[3] < y[3] THEN -1 ELSE 0

\* the comparator on (variable, num_val, degree) triples
compare(x, y) ==
    IF x[2] # y[2]
    THEN IF x[2] > y[2] THEN 1 ELSE -1
    ELSE IF x[3] > y[3] THEN -1
         ELSE IF x[3] < y[3] THEN 1 ELSE 0

Triple(var) ==
    <<var, Cardinality(domains[var]), Cardinality(neighbors(var))>>

\* faulty variant: the list is not sorted, so any unassigned slot comes first
SelectAny(a) == crossword.variables \ DOMAIN a

\* temp[0][0] of the stable sort: any unassigned slot that no other one
\* precedes under compare
select_unassigned_variable(a) ==
    LET variable == crossword.variables \ DOMAIN a
    IN  {var \in variable :
            \A other \in variable : compare(Triple(other), Triple(var)) >= 0}

----------------------------------------------------------------------------
(* backtrack *)

\* one call of backtrack: var, the values the for loop has still to try,
\* whether the call is returning a result that is not None, and (history)
\* the assignment the call was entered with
Frame(var, values, returning, entry) ==
    [var |-> var, values |-> values, returning |-> returning, entry |-> entry]

\* the frames a call backtrack(a) can start with: either it returns the
\* complete assignment at once, or it has picked var and ordered its values
Enter(a) ==
    IF assignment_complete(a)
    THEN {Frame(NoVar, <<>>, TRUE, a)}
    ELSE UNION {{Frame(var, values, FALSE, a) :
                    values \in order_domain_values(var, a)} :
                   var \in select_unassigned_variable(a)}

Top == stack[Len(stack)]

Callers == SubSeq(stack, 1, Len(stack) - 1)

\* the stack with the innermost frame replaced
WithTop(frame) == Append(Callers, frame)

\* solve(): return self.backtrack(dict())
BacktrackRoot ==
    /\ pc = "ac3ret"
    /\ assignment' = Empty
    /\ \E frame \in Enter(Empty) : stack' = <<frame>>
    /\ btCalls' = btCalls + 1
    /\ pc' = "search"
    /\ UNCHANGED <<crossword, ordered, domains, queue, ac3Ret, arcsArg, lastArc, revised,
                   domBefore, domPrev, retPrev, ac3Calls, result, run, prev>>

\* faulty variant: a value that fails the consistency check is also removed
\* from the domain of var
BacktrackTryPruning ==
    /\ pc = "search"
    /\ ~Top.returning
    /\ Top.values # <<>>
    /\ LET var == Top.var
           value == Head(Top.values)
           rest == Frame(var, Tail(Top.values), FALSE, Top.entry)
           tried == Put(assignment, var, value)
       IN  IF consistent(tried)
           THEN /\ assignment' = tried
                /\ \E frame \in Enter(tried) : stack' = Append(WithTop(rest), frame)
                /\ btCalls' = btCalls + 1
                /\ UNCHANGED domains
           ELSE /\ assignment' = Del(tried, var)
                /\ stack' = WithTop(rest)
                /\ domains' = [domains EXCEPT ![var] = @ \ {value}]
                /\ UNCHANGED btCalls
    /\ UNCHANGED <<crossword, ordered, pc, queue, ac3Ret, arcsArg, lastArc, revised,
                   domBefore, domPrev, retPrev, ac3Calls, result, run, prev>>

\* one pass of the for loop: assign the next value, check it, then either
\* recurse or delete it again
BacktrackTry ==
    /\ pc = "search"
    /\ ~Top.returning
    /\ Top.values # <<>>
    /\ LET var == Top.var
           value == Head(Top.values)
           rest == Frame(var, Tail(Top.values), FALSE, Top.entry)
           tried == Put(assignment, var, value)
       IN  IF consistent(tried)
           THEN /\ assignment' = tried
                /\ \E frame \in Enter(tried) : stack' = Append(WithTop(rest), frame)
                /\ btCalls' = btCalls + 1
           ELSE /\ assignment' = Del(tried, var)
                /\ stack' = WithTop(rest)
                /\ UNCHANGED btCalls
    /\ UNCHANGED <<crossword, ordered, domains, pc, queue, ac3Ret, arcsArg, lastArc,
                   revised, domBefore, domPrev, retPrev, ac3Calls, result, run,
                   prev>>

\* the for loop is exhausted: return None; the caller deletes its own
\* tentative value and goes on, or solve() returns None
BacktrackFail ==
    /\ pc = "search"
    /\ ~Top.returning
    /\ Top.values = <<>>
    /\ stack' = Callers
    /\ IF Callers = <<>>
       THEN /\ result' = None
            /\ pc' = "done"
            /\ UNCHANGED assignment
       ELSE /\ assignment' = Del(assignment, Callers[Len(Callers)].var)
            /\ UNCHANGED <<result, pc>>
    /\ UNCHANGED <<crossword, ordered, domains, queue, ac3Ret, arcsArg, lastArc, revised,
                   domBefore, domPrev, retPrev, ac3Calls, btCalls, run, prev>>

\* return assignment / return result: the caller's result is not None, so
\* it returns too; the outermost return is the value of solve()
BacktrackSucceed ==
    /\ pc = "search"
    /\ Top.returning
    /\ IF Callers = <<>>
       THEN /\ stack' = <<>>
            /\ result' = Assigned(assignment)
            /\ pc' = "done"
       ELSE /\ stack' = Append(SubSeq(Callers, 1, Len(Callers) - 1),
                               [Callers[Len(Callers)] EXCEPT !.returning = TRUE])
            /\ UNCHANGED <<result, pc>>
    /\ UNCHANGED <<crossword, ordered, domains, queue, ac3Ret, arcsArg, lastArc, revised,
                   domBefore, domPrev, retPrev, ac3Calls, assignment, btCalls, run,
                   prev>>

\* the partial assignments the search can pass on: words of the domains that
\* pass the consistency check
PartialAssignments(S) ==
    {a \in [S -> crossword.words] : (\A v \in S : a[v] \in domains[v]) /\ consistent(a)}

\* a driver calls order_domain_values(var, a) for an unassigned var
OrderCall ==
    /\ pc = "ac3ret"
    /\ \E var \in crossword.variables :
         \E S \in SUBSET (crossword.variables \ {var}) :
            \E a \in PartialAssignments(S) :
               \E values \in order_domain_values(var, a) :
                  ordered' = Frame(var, values, FALSE, a)
    /\ pc' = "ordered"
    /\ UNCHANGED <<crossword, domains, queue, ac3Ret, arcsArg, lastArc,
                   revised, domBefore, domPrev, retPrev, ac3Calls, assignment,
                   stack, btCalls, result, run, prev>>

----------------------------------------------------------------------------
(* main: a second run on the same structure and word list *)

Rerun ==
    /\ pc = "done"
    /\ run = 1
    /\ run' = 2
    /\ prev' = result
    /\ domains' = InitDomains(crossword)
    /\ domBefore' = domains'
    /\ domPrev' = domains'
    /\ pc' = "node"
    /\ queue' = {}
    /\ ac3Ret' = "NotCalled"
    /\ arcsArg' = NoArcs
    /\ lastArc' = NoArc
    /\ revised' = FALSE
    /\ retPrev' = "NotCalled"
    /\ ac3Calls' = 0
    /\ assignment' = Empty
    /\ stack' = <<>>
    /\ btCalls' = 0
    /\ result' = Pending
    /\ UNCHANGED <<crossword, ordered>>

----------------------------------------------------------------------------
(* Specifications *)

\* solve(), run twice on each crossword
Next ==
    \/ EnforceNodeConsistency
    \/ Ac3Begin
    \/ Ac3Pop
    \/ Ac3Empty
    \/ BacktrackRoot
    \/ BacktrackTry
    \/ BacktrackFail
    \/ BacktrackSucceed
    \/ Rerun

Spec == Init /\ [][Next]_vars

\* a driver that enforces node consistency and then calls ac3() repeatedly
NextAC3 ==
    \/ EnforceNodeConsistency
    \/ Ac3Begin
    \/ Ac3Supplied
    \/ Ac3Pop
    \/ Ac3Empty
    \/ Ac3Again

SpecAC3 == Init /\ [][NextAC3]_vars

\* a driver that enforces node consistency, calls ac3() and then calls
\* order_domain_values on partial assignments
NextOrder ==
    \/ EnforceNodeConsistency
    \/ Ac3Begin
    \/ Ac3Pop
    \/ Ac3Empty
    \/ OrderCall

SpecOrder == Init /\ [][NextOrder]_vars

----------------------------------------------------------------------------
(* Properties *)

Done == pc = "done"
Solved == Done /\ result.kind = "Assignment"
Failed == Done /\ result = None

\* the letters of words w (in slot x) and u (in slot y) on the shared cell agree
Agree(x, y, w, u) == w[overlaps(x, y)[1] + 1] = u[overlaps(x, y)[2] + 1]

\* C1: a returned assignment agrees on the shared cell of every pair of
\* neighbour slots.
C1_Overlap ==
    Solved =>
        \A x \in crossword.variables : \A y \in neighbors(x) :
            Agree(x, y, result.value[x], result.value[y])

C1_Witness ==
    /\ Solved
    /\ \E x \in crossword.variables : neighbors(x) # {}
    /\ \E x \in crossword.variables : Cardinality(domains[x]) > 1

\* C2: a returned assignment never gives one word to two distinct slots,
\* also when the slots do not overlap and share candidate words.
C2_Unique ==
    Solved =>
        \A x, y \in crossword.variables :
            x # y => result.value[x] # result.value[y]

C2_Witness ==
    /\ Solved
    /\ \E x, y \in crossword.variables :
          /\ x # y
          /\ y \notin neighbors(x)
          /\ Cardinality(domains[x] \cap domains[y]) > 1

\* C3: a returned assignment maps every slot to a word of the word list
\* whose length is the length of the slot.
C3_TotalLength ==
    Solved =>
        /\ DOMAIN result.value = crossword.variables
        /\ \A s \in crossword.variables :
              /\ result.value[s] \in crossword.words
              /\ Len(result.value[s]) = s.length

C3_Witness ==
    /\ Solved
    /\ \E s, t \in crossword.variables : s.length # t.length
    /\ \E w \in crossword.words, s \in crossword.variables : Len(w) # s.length

\* the puzzle has a solution: a total map of slots to words of the list that
\* meets the length, uniqueness and overlap constraints
IsSolution(f) ==
    /\ \A s \in crossword.variables : Len(f[s]) = s.length
    /\ \A s, t \in crossword.variables : s # t => f[s] # f[t]
    /\ \A s \in crossword.variables : \A t \in neighbors(s) : Agree(s, t, f[s], f[t])

Solvable == \E f \in [crossword.variables -> crossword.words] : IsSolution(f)

\* C4: solve() returns None only when the puzzle has no solution, whatever
\* arc ac3 pops and whatever order the candidates are tried in.
C4_Complete == Failed => ~Solvable

\* solve() failed after a search that tried values and went into recursion
C4_Witness == Failed /\ btCalls > 1

ArcConsistent ==
    \A x \in crossword.variables : \A y \in neighbors(x) :
        \A w \in domains[x] : \E u \in domains[y] : Agree(x, y, w, u)

\* C5: whenever ac3() returns True, every word of every domain has a matching
\* word in the domain of every neighbour.
C5_ArcConsistentOnSuccess ==
    (pc = "ac3ret" /\ ac3Ret = "True") => ArcConsistent

\* node consistency leaves some slot without any word of its length
NodeEmptied ==
    \E s \in crossword.variables :
        {w \in crossword.words : Len(w) = s.length} = {}

\* C6 as stated: when node consistency empties a domain, solve() returns None
\* and backtrack is never invoked.
C6_NoBacktrack ==
    (Done /\ NodeEmptied) => (result = None /\ btCalls = 0)

\* C6 amended: when node consistency empties a domain, solve() returns None
\* after a single call of backtrack at the root, which picks a slot with an
\* empty domain and returns None without assigning a word or recursing.
C6_RootOnly ==
    NodeEmptied =>
        /\ btCalls <= 1
        /\ assignment = Empty
        /\ Len(stack) <= 1
        /\ \A k \in DOMAIN stack : stack[k].values = <<>> /\ ~stack[k].returning
        /\ Done => (result = None /\ btCalls = 1)

\* the emptied slot is not the only one: another slot still has candidates
C6_Witness ==
    /\ Done
    /\ NodeEmptied
    /\ result = None
    /\ btCalls = 1
    /\ \E s \in crossword.variables : domains[s] # {}

\* C7: a call of ac3(), whatever it returns, only removes words: every domain
\* is a subset of what it was when the call was entered.
C7_Shrink ==
    pc \in {"ac3loop", "ac3ret"} =>
        \A s \in crossword.variables : domains[s] \subseteq domBefore[s]

\* a second call that removed a word, after a first call that removed one too
C7_Witness ==
    /\ pc = "ac3ret"
    /\ ac3Calls = 2
    /\ \E s \in crossword.variables : domains[s] # domBefore[s]
    /\ \E s \in crossword.variables : domPrev[s] # {w \in crossword.words : Len(w) = s.length}

\* C8: after a first ac3() on node-consistent domains returned True, a second
\* ac3() leaves every domain as the first call left it.
C8_Idempotent ==
    (pc = "ac3ret" /\ ac3Calls = 2 /\ retPrev = "True") => domains = domPrev

\* C9: enforce_node_consistency ends without an error and leaves in each
\* domain exactly the words of the word list that have the slot's length.
C9_NodeConsistency ==
    /\ pc # "KeyError"
    /\ (pc = "ac3" /\ ac3Calls = 0) =>
          \A s \in crossword.variables :
              /\ domains[s] \subseteq crossword.words
              /\ \A w \in crossword.words : w \in domains[s] <=> Len(w) = s.length

\* slots of two lengths and words of two lengths: something is removed from
\* every domain and something is kept in every domain
C9_Witness ==
    /\ pc = "ac3"
    /\ ac3Calls = 0
    /\ \E s, t \in crossword.variables : s.length # t.length
    /\ \A s \in crossword.variables : domains[s] # {} /\ domains[s] # crossword.words

\* C10: two runs of solve() on the same structure and word list return the
\* same value: the same assignment word for word, or None both times.
C10_Deterministic == (Done /\ run = 2) => result = prev

\* C11: revise(x, y) leaves in Domain[x] exactly the words of the previous
\* Domain[x] that have a matching word in Domain[y] (none when Domain[y] is
\* empty), touches no other domain, and returns True iff a word was removed.
C11_Revise ==
    (pc = "ac3ret" /\ lastArc # NoArc) =>
        LET x == lastArc[1]
            y == lastArc[2]
        IN  /\ domains[x] =
                  {w \in domBefore[x] : \E u \in domBefore[y] : Agree(x, y, w, u)}
            /\ domBefore[y] = {} => domains[x] = {}
            /\ \A s \in crossword.variables \ {x} : domains[s] = domBefore[s]
            /\ revised <=> domains[x] # domBefore[x]

\* revise removed some words of Domain[x] and kept others
C11_Witness ==
    /\ pc = "ac3ret"
    /\ lastArc # NoArc
    /\ revised
    /\ domains[lastArc[1]] # {}
    /\ domains[lastArc[1]] # domBefore[lastArc[1]]

\* C12: ac3() returns True only when its work queue is empty.
C12_Drained == (pc = "ac3ret" /\ ac3Ret = "True") => queue = {}

SomeDomainEmpty == \E s \in crossword.variables : domains[s] = {}

\* C13: ac3() returns False when some domain is empty at its return and True
\* otherwise, also when a domain was empty before the call and when there
\* are no arcs.
C13_ReturnValue ==
    pc = "ac3ret" => ac3Ret = (IF SomeDomainEmpty THEN "False" ELSE "True")

\* C14: the while loop of ac3 starts with the supplied arcs when arcs are
\* passed, and with every arc of the problem otherwise.
C14_InitialQueue ==
    pc = "ac3loop" => queue = (IF arcsArg.given THEN arcsArg.arcs ELSE AllArcs)

\* C15: from the first call of backtrack until solve() returns, no step
\* changes a domain.
C15_DomainsReadOnly ==
    [][(pc \in {"ac3ret", "search"}) => (domains' = domains)]_vars

\* a search that rejected values and returned from recursive calls
C15_Witness ==
    /\ Done
    /\ btCalls > 2
    /\ \E s \in crossword.variables : Cardinality(domains[s]) > 1

\* C16: at the head of every pass of the for loop, and so when the call
\* returns None, the assignment is the one the call was entered with.
C16_Nested ==
    (pc = "search" /\ ~Top.returning) => assignment = Top.entry

\* a nested call about to return None after it tried at least one value
C16_Witness ==
    /\ pc = "search"
    /\ ~Top.returning
    /\ Top.values = <<>>
    /\ Len(stack) > 1
    /\ domains[Top.var] # {}
    /\ Top.entry # Empty

\* the slots a call of backtrack found unassigned
Unassigned(frame) == crossword.variables \ DOMAIN frame.entry

Size(s) == Cardinality(domains[s])
Degree(s) == Cardinality(neighbors(s))

\* C17: the slot a call of backtrack selects is unassigned, has a domain of
\* minimal size among the unassigned slots and has the most neighbours among
\* the unassigned slots of that size.
C17_Select ==
    pc = "search" =>
        \A k \in DOMAIN stack :
            stack[k].var # NoVar =>
                /\ stack[k].var \in Unassigned(stack[k])
                /\ \A o \in Unassigned(stack[k]) :
                      /\ Size(stack[k].var) <= Size(o)
                      /\ Size(o) = Size(stack[k].var) =>
                             Degree(o) <= Degree(stack[k].var)

\* the selection had to use both criteria: a slot with a larger domain and a
\* slot with the same domain size and fewer neighbours were unassigned
C17_Witness ==
    /\ pc = "search"
    /\ Top.var # NoVar
    /\ \E o \in Unassigned(Top) : Size(o) > Size(Top.var)
    /\ \E o \in Unassigned(Top) :
          Size(o) = Size(Top.var) /\ Degree(o) < Degree(Top.var)

\* unassigned neighbours of the frame's slot whose domain holds word w
Conflicts(frame, w) ==
    Cardinality({n \in neighbors(frame.var) :
                    n \notin DOMAIN frame.entry /\ w \in domains[n]})

\* the frame's list holds every word of the domain once, by rising count
WholeDomainByCount(frame) ==
    /\ Len(frame.values) = Cardinality(domains[frame.var])
    /\ {frame.values[i] : i \in DOMAIN frame.values} = domains[frame.var]
    /\ \A i, j \in DOMAIN frame.values :
          i < j => Conflicts(frame, frame.values[i]) <= Conflicts(frame, frame.values[j])

Phase ==
    CASE pc = "node" -> 5
      [] pc = "ac3" -> 4
      [] pc = "ac3loop" -> 3
      [] pc = "ac3ret" -> 2
      [] pc = "search" -> 1
      [] OTHER -> 0

\* one more than the largest number of values a call of backtrack can hold
Base == Cardinality(crossword.words) + 2

\* the values the call at depth k has still to try, plus one; 0 without a call
Digit(k) == IF k <= Len(stack) THEN 1 + Len(stack[k].values) ELSE 0

RECURSIVE SearchRank(_)
\* the digits of depths k, k + 1, ... read as a number in base Base, the
\* outermost call first
SearchRank(k) ==
    IF k > Cardinality(crossword.variables) + 1
    THEN 0
    ELSE Digit(k) * Base ^ (Cardinality(crossword.variables) + 1 - k) + SearchRank(k + 1)

\* a natural number that every step of the two runs makes smaller
Rank ==
    ((2 - run) * 6 + Phase) * Base ^ (Cardinality(crossword.variables) + 2)
        + SearchRank(1)

\* C19: every run of solve() ends (each step of node consistency, AC-3 and
\* the search lowers a natural number, and a step is possible until solve()
\* has returned), and at no moment are more than (number of slots + 1)
\* calls of backtrack active.
C19_Terminates ==
    /\ [][Rank' < Rank]_vars
    /\ [](Rank >= 0)
    /\ [](Done \/ ENABLED Next)
    /\ [](Len(stack) <= Cardinality(crossword.variables) + 1)

\* the deepest recursion: one call per slot and the call that finds the
\* assignment complete
C19_Witness ==
    /\ Len(stack) = Cardinality(crossword.variables) + 1
    /\ Cardinality(crossword.variables) > 2

\* C20: when ac3() returned False, solve() still returns None: the single
\* call of backtrack selects a slot with an empty domain and tries nothing.
C20_FalseThenNone ==
    ac3Ret = "False" =>
        /\ pc = "search" =>
              /\ Len(stack) = 1
              /\ Top.var # NoVar
              /\ domains[Top.var] = {}
              /\ Top.values = <<>>
              /\ assignment = Empty
        /\ Done => (result = None /\ btCalls = 1)

\* the domain was emptied by revise, not by node consistency, and another
\* slot still has candidates
C20_Witness ==
    /\ Done
    /\ ac3Ret = "False"
    /\ ~NodeEmptied
    /\ \E s \in crossword.variables : domains[s] # {}

====
